---- MODULE Spec2Model ----
(***************************************************************************)
(* Model of the cribbage analyzer: crib.py (cards, combinations, the       *)
(* scoring rules) and analyzer.py (score, crib_prune, cut_prune, discard). *)
(* Python lists are sequences; Python positions 0..n-1 are positions 1..n. *)
(***************************************************************************)
EXTENDS Integers, Sequences, FiniteSets, TLC

VARIABLES
    hand,         \* score specification: the hand handed to score()
    phase,        \* score specification: "new", "scored" ("idle" when unused)
    res,          \* score specification: the contributions score() added up
    deal,         \* discard(): the six dealt cards
    yours,        \* discard(): the crib-ownership flag
    pc,           \* discard(): position in the call
    i, j,         \* discard(): the loop variables of the pair loop
    bests,        \* discard(): the candidate list [hand, discards, score]
    deck,         \* cut_prune(): the reference deck
    di,           \* cut_prune(): position of the iterator of "for card1 in deck"
    bi,           \* cut_prune(): position of the iterator of "for best in bests"
    cribIn,       \* history: bests as handed to crib_prune
    cutIn,        \* history: bests as handed to cut_prune
    recommended,  \* the hand printed by discard()
    err           \* the exception that ended discard(), "none" if none

vars == <<hand, phase, res, deal, yours, pc, i, j, bests, deck, di, bi,
          cribIn, cutIn, recommended, err>>

scoreVars == <<hand, phase, res>>

discardVars == <<deal, yours, pc, i, j, bests, deck, di, bi, cribIn, cutIn,
                 recommended, err>>

(***************************************************************************)
(* crib.py: Card                                                           *)
(***************************************************************************)
values == <<"A", "2", "3", "4", "5", "6", "7", "8", "9", "10", "J", "Q", "K">>

suits == <<"S", "H", "D", "C">>

Card(value, suit) == [value |-> value, suit |-> suit]

\* Card.values.index(value), 0-based as in the source
value_index ==
    [v \in {values[n] : n \in 1..Len(values)} |->
        (CHOOSE n \in 1..Len(values) : values[n] = v) - 1]

val_to_index(card) == value_index[card.value]

\* variant of val_to_int: the court cards count by their rank, 11 to 13
val_to_int_by_rank(card) == val_to_index(card) + 1

\* values[1:10] are "2".."10", whose int() is their index plus one
val_to_int(card) ==
    IF \E n \in 2..10 : values[n] = card.value
    THEN val_to_index(card) + 1
    ELSE IF card.value = "A" THEN 1 ELSE 10

\* for suit in cls.suits: for val in cls.values: deck.append(Card(val, suit))
make_deck ==
    [n \in 1..(Len(suits) * Len(values)) |->
        Card(values[((n - 1) % Len(values)) + 1], suits[((n - 1) \div Len(values)) + 1])]

(***************************************************************************)
(* crib.py: get_combos, fifteens, runs, pairs, suit_flush                  *)
(***************************************************************************)
RECURSIVE combo_extend(_, _), combo_loop(_, _, _)
\* the loop nest of get_combos: a prefix of two or more positions is
\* appended before the deeper loop extends it, up to four positions
combo_extend(prefix, size) ==
    (IF Len(prefix) >= 2 THEN <<prefix>> ELSE <<>>)
    \o (IF Len(prefix) < 4
        THEN combo_loop(prefix,
                        IF prefix = <<>> THEN 1 ELSE prefix[Len(prefix)] + 1,
                        size)
        ELSE <<>>)

combo_loop(prefix, v, size) ==
    IF v > size THEN <<>>
    ELSE combo_extend(Append(prefix, v), size) \o combo_loop(prefix, v + 1, size)

combos_of_size ==
    [size \in 0..7 |->
        combo_extend(<<>>, size)
        \o (IF size = 5 THEN <<[n \in 1..size |-> n]>> ELSE <<>>)]

get_combos(h) == combos_of_size[Len(h)]

RECURSIVE combo_total(_, _, _)
combo_total(h, combo, n) ==
    IF n > Len(combo) THEN 0
    ELSE val_to_int(h[combo[n]]) + combo_total(h, combo, n + 1)

fifteens(h, combos) ==
    SelectSeq(combos, LAMBDA combo : combo_total(h, combo, 1) = 15)

RECURSIVE insert_sorted(_, _)
insert_sorted(s, x) ==
    IF s = <<>> THEN <<x>>
    ELSE IF x < s[1] THEN <<x>> \o s
    ELSE <<s[1]>> \o insert_sorted(Tail(s), x)

RECURSIVE sorted_ints(_)
sorted_ints(s) ==
    IF s = <<>> THEN <<>>
    ELSE insert_sorted(sorted_ints(SubSeq(s, 1, Len(s) - 1)), s[Len(s)])

count(s, x) == Cardinality({n \in 1..Len(s) : s[n] = x})

\* variant of run_indices: the rank indices in hand order, not sorted
run_indices_unsorted(h, combo) ==
    [n \in 1..Len(combo) |-> val_to_index(h[combo[n]])]

\* the sorted rank indices of one combination
run_indices(h, combo) ==
    sorted_ints([n \in 1..Len(combo) |-> val_to_index(h[combo[n]])])

\* variant of is_consecutive: repeated indices are not looked for
is_consecutive_ignoring_repeats(val_indices) ==
    \A n \in 1..(Len(val_indices) - 1) :
        \E m \in 1..Len(val_indices) : val_indices[m] = val_indices[n] + 1

\* the inner test of runs(): every index but the last has a successor in the
\* list and occurs once
is_consecutive(val_indices) ==
    \A n \in 1..(Len(val_indices) - 1) :
        /\ \E m \in 1..Len(val_indices) : val_indices[m] = val_indices[n] + 1
        /\ count(val_indices, val_indices[n]) <= 1

\* one pass of the loop of runs() over a combination, from the state st of
\* current_best and multiplicity
runs_step(h, combo, st) ==
    LET val_indices == run_indices(h, combo)
    IN  IF Len(combo) >= 3 /\ is_consecutive(val_indices)
        THEN IF Len(val_indices) > Len(st.current_best)
             THEN [current_best |-> val_indices, multiplicity |-> 1]
             ELSE IF Len(val_indices) = Len(st.current_best)
                  THEN [st EXCEPT !.multiplicity = st.multiplicity + 1]
                  ELSE st
        ELSE st

RECURSIVE runs_loop(_, _, _, _, _)
\* the passes over combos[lo..hi] in order.  The range is halved, and the
\* state after the first half is compared with st so that it is evaluated
\* before the second half starts: this keeps the evaluation shallow, and
\* the passes are the same, in the same order.
runs_loop(h, combos, lo, hi, st) ==
    IF lo > hi THEN st
    ELSE IF lo = hi THEN runs_step(h, combos[lo], st)
    ELSE LET mid == (lo + hi) \div 2
             half == runs_loop(h, combos, lo, mid, st)
         IN  IF half = st
             THEN runs_loop(h, combos, mid + 1, hi, st)
             ELSE runs_loop(h, combos, mid + 1, hi, half)

runs(h, combos) ==
    runs_loop(h, combos, 1, Len(combos), [current_best |-> <<>>, multiplicity |-> 1])

pairs(h, combos) ==
    SelectSeq(combos, LAMBDA combo :
        Len(combo) = 2 /\ h[combo[1]].value = h[combo[2]].value)

suit_flush(h) ==
    IF \E n \in 2..Len(h) : h[n].suit # h[1].suit THEN 0 ELSE 1

(***************************************************************************)
(* analyzer.py: score                                                      *)
(***************************************************************************)
\* hand[0:5]
first_five(h) == SubSeq(h, 1, IF Len(h) < 5 THEN Len(h) ELSE 5)

score_parts(h) ==
    LET combos == get_combos(h)
        run == runs(h, combos)
        flush == suit_flush(first_five(h))
    IN  [fifteens |-> Len(fifteens(h, combos)) * 2,
         pairs |-> Len(pairs(h, combos)) * 2,
         flush |-> 4 * flush + (IF Len(h) = 5 THEN suit_flush(h) ELSE 0),
         run |-> Len(run.current_best),
         multiplicity |-> run.multiplicity]

score_total(p) == p.fifteens + p.pairs + p.flush + p.run * p.multiplicity

score(h) == score_total(score_parts(h))

(***************************************************************************)
(* Scoring specification: score() applied to hands of 4 or 5 distinct      *)
(* cards drawn from the first PoolSize cards of HandPool, and to every     *)
(* reordering of them.                                                     *)
(***************************************************************************)
PoolSize == 10

HandPool ==
    <<Card("5", "S"), Card("5", "C"), Card("5", "H"), Card("J", "D"),
      Card("5", "D"), Card("3", "S"), Card("4", "S"), Card("6", "S"),
      Card("4", "H"), Card("7", "S"), Card("10", "C"), Card("A", "S")>>

PoolPositions == 1..(IF PoolSize < Len(HandPool) THEN PoolSize ELSE Len(HandPool))

RECURSIVE pool_hand(_, _)
\* the cards of a set of pool positions, in pool order
pool_hand(S, n) ==
    IF n > Len(HandPool) THEN <<>>
    ELSE (IF n \in S THEN <<HandPool[n]>> ELSE <<>>) \o pool_hand(S, n + 1)

PoolHands ==
    {pool_hand(S, 1) : S \in {T \in SUBSET PoolPositions : Cardinality(T) \in {4, 5}}}

NoParts == [fifteens |-> 0, pairs |-> 0, flush |-> 0, run |-> 0, multiplicity |-> 0]

\* the two reorderings that generate every permutation of a hand
swap_first_two(h) ==
    [n \in 1..Len(h) |-> IF n = 1 THEN h[2] ELSE IF n = 2 THEN h[1] ELSE h[n]]

rotate(h) == Tail(h) \o <<h[1]>>

DiscardIdle ==
    /\ deal = <<>>
    /\ yours = FALSE
    /\ pc = "idle"
    /\ i = 0
    /\ j = 0
    /\ bests = <<>>
    /\ deck = <<>>
    /\ di = 0
    /\ bi = 0
    /\ cribIn = <<>>
    /\ cutIn = <<>>
    /\ recommended = <<>>
    /\ err = "none"

InitScore ==
    /\ hand \in PoolHands
    /\ phase = "new"
    /\ res = NoParts
    /\ DiscardIdle

\* score(hand)
ScoreHand ==
    /\ phase = "new"
    /\ res' = score_parts(hand)
    /\ phase' = "scored"
    /\ UNCHANGED <<hand>>
    /\ UNCHANGED discardVars

\* score() of the same cards in another order
ScorePermuted ==
    /\ phase = "scored"
    /\ \E p \in {swap_first_two(hand), rotate(hand)} :
          /\ hand' = p
          /\ res' = score_parts(p)
    /\ phase' = "scored"
    /\ UNCHANGED discardVars

NextScore == ScoreHand \/ ScorePermuted

SpecScore == InitScore /\ [][NextScore]_vars

(***************************************************************************)
(* Properties of score(), checked under SpecScore                          *)
(***************************************************************************)
same_suit(h, S) == \A n \in S : h[n].suit = h[1].suit

\* the flush contribution the rule describes: the first four cards are the
\* retained hand, a fifth card is the cut
RuleFlush(h) ==
    IF Len(h) = 5
    THEN IF same_suit(h, 1..4)
         THEN IF h[5].suit = h[1].suit THEN 5 ELSE 4
         ELSE 0
    ELSE IF same_suit(h, 1..4) THEN 4 ELSE 0

\* C2: the flush contribution of score() is 4 when the four retained cards
\* share a suit and the cut does not, 5 when all five share a suit, 0 when the
\* four retained cards are of mixed suits; for a 4-card hand it is 4 when all
\* four share a suit and 0 otherwise.
FlushFollowsRule == phase = "scored" => res.flush = RuleFlush(hand)

rank_set(h, S) == {val_to_index(h[n]) : n \in S}

\* the cards at positions S have pairwise different, consecutive rank indices
IsRun(h, S) ==
    LET R == rank_set(h, S)
    IN  /\ Cardinality(R) = Cardinality(S)
        /\ \A r \in R : \A q \in R : r - q < Cardinality(S)

RunsOfSize(h, size) ==
    {S \in SUBSET (1..Len(h)) : Cardinality(S) = size /\ IsRun(h, S)}

LongestRun(h) ==
    IF \E size \in 3..Len(h) : RunsOfSize(h, size) # {}
    THEN CHOOSE size \in 3..Len(h) :
            /\ RunsOfSize(h, size) # {}
            /\ \A bigger \in (size + 1)..Len(h) : RunsOfSize(h, bigger) = {}
    ELSE 0

RunPoints(h) == LongestRun(h) * Cardinality(RunsOfSize(h, LongestRun(h)))

\* C3: the run contribution of score() is L x M, L the largest size (3 or
\* more) of a sub-combination of pairwise different consecutive ranks and M the
\* number of such sub-combinations of size L; it is 0 when there is no run,
\* and the length found by runs() is L.
RunsScoreLongestTimesCount ==
    phase = "scored" =>
        /\ res.run = LongestRun(hand)
        /\ res.run * res.multiplicity = RunPoints(hand)
        /\ (LongestRun(hand) > 0 =>
                res.multiplicity = Cardinality(RunsOfSize(hand, LongestRun(hand))))

\* a scored 4-card hand of ranks 3, 4, 4, 5: run of 3 counted twice, 6 points
DoubleRunScored ==
    /\ phase = "scored"
    /\ Len(hand) = 4
    /\ rank_set(hand, 1..4) = {2, 3, 4}
    /\ Cardinality({n \in 1..4 : val_to_index(hand[n]) = 3}) = 2
    /\ res.run = 3
    /\ res.multiplicity = 2

PerfectHand ==
    <<Card("5", "S"), Card("5", "C"), Card("5", "H"), Card("J", "D"), Card("5", "D")>>

\* C4 as stated: score() of the three fives of spades, clubs and hearts, the
\* jack of diamonds and the cut five of diamonds is 29.
PerfectHandScores29 ==
    (phase = "scored" /\ hand = PerfectHand) => score_total(res) = 29

\* C4 as amended: score() of that hand is 28, eight fifteens (16) and six
\* pairs (12), no run and no flush; the jack of the cut's suit adds nothing.
PerfectHandScores28 ==
    (phase = "scored" /\ hand = PerfectHand) =>
        /\ score_total(res) = 28
        /\ res.fifteens = 16
        /\ res.pairs = 12
        /\ res.flush = 0
        /\ res.run = 0

PerfectHandScored == phase = "scored" /\ hand = PerfectHand

pool_position(card) == CHOOSE n \in 1..Len(HandPool) : HandPool[n] = card

rat(n, d) == [num |-> n, den |-> d]

rat_add(a, b) == rat(a.num * b.den + b.num * a.den, a.den * b.den)

rat_less(a, b) == a.num * b.den < b.num * a.den

rat_eq(a, b) == a.num * b.den = b.num * a.den

best(h, discards, points) == [hand |-> h, disc |-> discards, score |-> points]

RECURSIVE insert_by_score(_, _)
insert_by_score(s, x) ==
    IF s = <<>> THEN <<x>>
    ELSE IF rat_less(x.score, s[1].score) THEN <<x>> \o s
    ELSE <<s[1]>> \o insert_by_score(Tail(s), x)

RECURSIVE sorted_by_score(_)
\* sorted(bests, key=lambda x: x[2]): ascending and stable
sorted_by_score(s) ==
    IF s = <<>> THEN <<>>
    ELSE insert_by_score(sorted_by_score(SubSeq(s, 1, Len(s) - 1)), s[Len(s)])

RECURSIVE prune_to_highest(_)
\* while bests[-1][2] < bests[0][2]: bests.pop()
prune_to_highest(b) ==
    IF rat_less(b[Len(b)].score, b[1].score)
    THEN prune_to_highest(SubSeq(b, 1, Len(b) - 1))
    ELSE b

(***************************************************************************)
(* analyzer.py: crib_prune                                                 *)
(***************************************************************************)
crib_bonus(b, multiplier) ==
    LET d1 == b.disc[1]
        d2 == b.disc[2]
    IN  IF val_to_int(d1) + val_to_int(d2) = 15 THEN rat(multiplier * 4, 1)
        ELSE IF d1.value = d2.value THEN rat(multiplier * 3, 1)
        ELSE IF val_to_index(d1) + 1 = val_to_index(d2) THEN rat(multiplier * 2, 1)
        ELSE IF val_to_index(d1) - 1 = val_to_index(d2) THEN rat(multiplier * 2, 1)
        ELSE IF d1.suit = d2.suit THEN rat(multiplier, 1)
        ELSE rat(0, 1)

jack_bonus(b, multiplier) ==
    IF b.disc[1].value = "J" \/ b.disc[2].value = "J"
    THEN rat(multiplier, 2)
    ELSE rat(0, 1)

crib_adjust(b, multiplier) ==
    [b EXCEPT !.score =
        rat_add(rat_add(b.score, crib_bonus(b, multiplier)), jack_bonus(b, multiplier))]

\* best[1][0] and best[1][1] exist
has_discards(b) == Len(b.disc) >= 2

crib_prune(b, crib_is_yours) ==
    LET multiplier == IF crib_is_yours THEN 1 ELSE -1
    IN  prune_to_highest(
            sorted_by_score([n \in 1..Len(b) |-> crib_adjust(b[n], multiplier)]))

(***************************************************************************)
(* analyzer.py: cut_prune                                                  *)
(***************************************************************************)
\* list.remove(x): drops the first element equal to x
list_remove(s, x) ==
    IF \E n \in 1..Len(s) : s[n] = x
    THEN LET k == CHOOSE n \in 1..Len(s) :
                     s[n] = x /\ \A m \in 1..(n - 1) : s[m] # x
         IN  SubSeq(s, 1, k - 1) \o SubSeq(s, k + 1, Len(s))
    ELSE s

RECURSIVE remove_used(_, _, _, _)
\* for card2 in used: if card1 == card2: deck.remove(card1)
remove_used(d, card1, used, n) ==
    IF n > Len(used) THEN d
    ELSE IF card1 = used[n]
         THEN remove_used(list_remove(d, card1), card1, used, n + 1)
         ELSE remove_used(d, card1, used, n + 1)

RECURSIVE cut_sum(_, _, _, _)
\* for card in deck: hand.append(card); average += score(hand); hand.pop()
\* over deck[lo..hi] (the range is halved to keep the evaluation shallow)
cut_sum(h, d, lo, hi) ==
    IF lo > hi THEN 0
    ELSE IF lo = hi THEN score(Append(h, d[lo]))
    ELSE LET mid == (lo + hi) \div 2
         IN  cut_sum(h, d, lo, mid) + cut_sum(h, d, mid + 1, hi)

cut_average(h, d) == rat(cut_sum(h, d, 1, Len(d)), 46)

(***************************************************************************)
(* analyzer.py: discard                                                    *)
(***************************************************************************)
\* deal.index(card)
deal_index(d, card) ==
    CHOOSE n \in 1..Len(d) : d[n] = card /\ \A m \in 1..(n - 1) : d[m] # card

\* [card for card in deal if deal.index(card) != i and deal.index(card) != j]
retained(d, a, b) ==
    SelectSeq(d, LAMBDA card : deal_index(d, card) # a /\ deal_index(d, card) # b)

DealPoolSize == 8

DealPool ==
    <<Card("2", "S"), Card("4", "H"), Card("6", "D"), Card("8", "C"),
      Card("10", "S"), Card("Q", "H"), Card("7", "D"), Card("3", "S"),
      Card("5", "C"), Card("K", "H")>>

DealPositions == 1..(IF DealPoolSize < Len(DealPool) THEN DealPoolSize ELSE Len(DealPool))

RECURSIVE pool_deal(_, _)
pool_deal(S, n) ==
    IF n > Len(DealPool) THEN <<>>
    ELSE (IF n \in S THEN <<DealPool[n]>> ELSE <<>>) \o pool_deal(S, n + 1)

Deals == {pool_deal(S, 1) : S \in {T \in SUBSET DealPositions : Cardinality(T) = 6}}

ScoreIdle ==
    /\ hand = <<>>
    /\ phase = "idle"
    /\ res = NoParts

Init ==
    /\ deal \in Deals
    /\ yours \in BOOLEAN
    /\ pc = "loop"
    /\ i = 1
    /\ j = 2
    /\ bests = <<best(<<>>, <<>>, rat(0, 1))>>
    /\ deck = <<>>
    /\ di = 0
    /\ bi = 0
    /\ cribIn = <<>>
    /\ cutIn = <<>>
    /\ recommended = <<>>
    /\ err = "none"
    /\ ScoreIdle

\* one pass of the body of the pair loop
LoopStep ==
    /\ pc = "loop"
    /\ LET h == retained(deal, i, j)
           points == rat(score(h), 1)
       IN  bests' = IF rat_less(bests[1].score, points)
                    THEN <<best(h, <<deal[i], deal[j]>>, points)>>
                    ELSE IF rat_eq(points, bests[1].score)
                         THEN Append(bests, best(h, <<deal[i], deal[j]>>, points))
                         ELSE bests
    /\ IF j < 6 THEN i' = i /\ j' = j + 1 /\ pc' = pc
       ELSE IF i < 5 THEN i' = i + 1 /\ j' = i + 2 /\ pc' = pc
       ELSE i' = i /\ j' = j /\ pc' = "prune1"
    /\ UNCHANGED <<deal, yours, deck, di, bi, cribIn, cutIn, recommended, err>>
    /\ UNCHANGED scoreVars

\* if len(bests) > 1: bests = crib_prune(bests, yours)
CribPruneCall ==
    /\ pc = "prune1"
    /\ Len(bests) > 1
    /\ cribIn' = bests
    /\ IF \A n \in 1..Len(bests) : has_discards(bests[n])
       THEN /\ bests' = crib_prune(bests, yours)
            /\ pc' = "prune2"
            /\ err' = err
       ELSE /\ bests' = LET multiplier == IF yours THEN 1 ELSE -1
                        IN  [n \in 1..Len(bests) |->
                               IF \A m \in 1..n : has_discards(bests[m])
                               THEN crib_adjust(bests[n], multiplier)
                               ELSE bests[n]]
            /\ pc' = "error"
            /\ err' = "IndexError"
    /\ UNCHANGED <<deal, yours, i, j, deck, di, bi, cutIn, recommended>>
    /\ UNCHANGED scoreVars

CribPruneSkip ==
    /\ pc = "prune1"
    /\ Len(bests) <= 1
    /\ pc' = "prune2"
    /\ UNCHANGED <<deal, yours, i, j, bests, deck, di, bi, cribIn, cutIn, recommended, err>>
    /\ UNCHANGED scoreVars

\* if len(bests) > 1: cut_prune(bests), up to the removal loop: used is the
\* first candidate's own hand list, which the extend lengthens
CutPruneCall ==
    /\ pc = "prune2"
    /\ Len(bests) > 1
    /\ cutIn' = bests
    /\ deck' = make_deck
    /\ bests' = [bests EXCEPT ![1].hand = bests[1].hand \o bests[1].disc]
    /\ di' = 1
    /\ pc' = "cut_remove"
    /\ UNCHANGED <<deal, yours, i, j, bi, cribIn, recommended, err>>
    /\ UNCHANGED scoreVars

CutPruneSkip ==
    /\ pc = "prune2"
    /\ Len(bests) <= 1
    /\ pc' = "print"
    /\ UNCHANGED <<deal, yours, i, j, bests, deck, di, bi, cribIn, cutIn, recommended, err>>
    /\ UNCHANGED scoreVars

\* one pass of "for card1 in deck": the iterator reads position di of the
\* list as it is now and moves on by one, whether or not the list shrank
CutRemoveStep ==
    /\ pc = "cut_remove"
    /\ deck' = remove_used(deck, deck[di], bests[1].hand, 1)
    /\ di' = di + 1
    /\ IF di + 1 > Len(deck') THEN pc' = "cut_avg" /\ bi' = 1
       ELSE pc' = pc /\ bi' = bi
    /\ UNCHANGED <<deal, yours, i, j, bests, cribIn, cutIn, recommended, err>>
    /\ UNCHANGED scoreVars

\* one pass of "for best in bests"
CutAverageStep ==
    /\ pc = "cut_avg"
    /\ bests' = [bests EXCEPT ![bi].score = cut_average(bests[bi].hand, deck)]
    /\ IF bi < Len(bests) THEN bi' = bi + 1 /\ pc' = pc
       ELSE bi' = bi /\ pc' = "cut_sort"
    /\ UNCHANGED <<deal, yours, i, j, deck, di, cribIn, cutIn, recommended, err>>
    /\ UNCHANGED scoreVars

\* the sort and the pruning loop that end cut_prune
CutSortPrune ==
    /\ pc = "cut_sort"
    /\ bests' = prune_to_highest(sorted_by_score(bests))
    /\ pc' = "print"
    /\ UNCHANGED <<deal, yours, i, j, deck, di, bi, cribIn, cutIn, recommended, err>>
    /\ UNCHANGED scoreVars

\* print("Recommended hand: ", ...) for card in bests[0][0]
PrintRecommended ==
    /\ pc = "print"
    /\ recommended' = bests[1].hand
    /\ pc' = "done"
    /\ UNCHANGED <<deal, yours, i, j, bests, deck, di, bi, cribIn, cutIn, err>>
    /\ UNCHANGED scoreVars

Next ==
    \/ LoopStep
    \/ CribPruneCall
    \/ CribPruneSkip
    \/ CutPruneCall
    \/ CutPruneSkip
    \/ CutRemoveStep
    \/ CutAverageStep
    \/ CutSortPrune
    \/ PrintRecommended

Spec == Init /\ [][Next]_vars

(***************************************************************************)
(* Properties of discard(), checked under Spec                             *)
(***************************************************************************)
card_set(h) == {h[n] : n \in 1..Len(h)}

\* the deal minus positions a and b, in deal order
DealWithout(a, b) ==
    SelectSeq(deal, LAMBDA card : card # deal[a] /\ card # deal[b])

PairPositions == {p \in (1..6) \X (1..6) : p[1] < p[2]}

\* C1: discard() completes without an error and recommends four cards, the
\* deal minus two positions.
DiscardRecommendsFourOfDeal ==
    /\ pc # "error"
    /\ err = "none"
    /\ pc = "done" => \E p \in PairPositions : recommended = DealWithout(p[1], p[2])

\* the candidate the pair loop builds for positions p
PairCandidate(p) ==
    best(DealWithout(p[1], p[2]), <<deal[p[1]], deal[p[2]]>>,
         rat(score(DealWithout(p[1], p[2])), 1))

MaxFourCardScore ==
    CHOOSE m \in {score(DealWithout(p[1], p[2])) : p \in PairPositions} :
        \A p \in PairPositions : score(DealWithout(p[1], p[2])) <= m

\* C7: after the pair loop the candidate list holds exactly the discards whose
\* 4-card score is the maximum over the 15, each with four retained and two
\* discarded cards of the deal, also when that maximum is 0.
CandidatesAreTheMaxima ==
    pc = "prune1" =>
        /\ card_set(bests) =
              {PairCandidate(p) : p \in {q \in PairPositions :
                    score(DealWithout(q[1], q[2])) = MaxFourCardScore}}
        /\ \A n \in 1..Len(bests) :
              /\ Len(bests[n].hand) = 4
              /\ Len(bests[n].disc) = 2
              /\ card_set(bests[n].hand) \cup card_set(bests[n].disc) = card_set(deal)

\* the adjusted score the heuristic describes, in halves of a point: 4, 3, 2
\* or 1 by the first matching row, one half more for a jack, negated when the
\* crib is the opponent's
RuleBonusHalves(d1, d2) ==
    (IF val_to_int(d1) + val_to_int(d2) = 15 THEN 8
     ELSE IF d1.value = d2.value THEN 6
     ELSE IF val_to_index(d1) - val_to_index(d2) \in {1, -1} THEN 4
     ELSE IF d1.suit = d2.suit THEN 2
     ELSE 0)
    + (IF "J" \in {d1.value, d2.value} THEN 1 ELSE 0)

RuleAdjusted(b) ==
    rat(2 * b.score.num + (IF yours THEN 1 ELSE -1) * RuleBonusHalves(b.disc[1], b.disc[2]),
        2 * b.score.den)

\* C8: every candidate crib_prune returns has the maximum adjusted score of
\* the candidates it was given.
CribPruneKeepsOnlyMaxima ==
    (pc = "prune2" /\ cribIn # <<>>) =>
        \A n \in 1..Len(bests) : \A m \in 1..Len(cribIn) :
            ~rat_less(bests[n].score, RuleAdjusted(cribIn[m]))

\* the cards of the deck that were not dealt, in deck order
Undealt == SelectSeq(make_deck, LAMBDA card : card \notin card_set(deal))

\* 46 times the mean 5-card score of a retained hand over the undealt cuts
CutTotal(h) == cut_sum(h, Undealt, 1, Len(Undealt))

\* C6: when cut_prune runs, the recommended hand is the first candidate, in
\* the order they entered, whose cut-average is the maximum, and every
\* candidate cut_prune keeps has that average.
CutPruneRecommendsMaximum ==
    (pc = "done" /\ cutIn # <<>>) =>
        /\ \E n \in 1..Len(cutIn) :
              /\ recommended = cutIn[n].hand
              /\ \A m \in 1..Len(cutIn) : CutTotal(cutIn[m].hand) <= CutTotal(cutIn[n].hand)
              /\ \A m \in 1..(n - 1) : CutTotal(cutIn[m].hand) < CutTotal(cutIn[n].hand)
        /\ \A k \in 1..Len(bests) : \A m \in 1..Len(cutIn) :
              ~rat_less(bests[k].score, rat(CutTotal(cutIn[m].hand), 46))

\* C9: after the removal loop of cut_prune the deck has 46 cards, none of
\* them a card of the deal.
DeckExcludesDeal ==
    pc = "cut_avg" =>
        /\ Len(deck) = 46
        /\ card_set(deck) \cap card_set(deal) = {}

\* C10: the score cut_prune writes to a candidate, times 46, is the sum of
\* score(retained hand + c) over the 46 undealt cards c, and the candidate's
\* retained hand and discard pair are as they entered.
CutAverageIsMean ==
    pc = "cut_sort" =>
        \A n \in 1..Len(bests) :
            /\ bests[n].score.num * 46 = bests[n].score.den * CutTotal(cutIn[n].hand)
            /\ bests[n].hand = cutIn[n].hand
            /\ bests[n].disc = cutIn[n].disc

====
